---- MODULE Spec2Model ----
(***************************************************************************)
(* preact-iso router (src/src/router.js): the path matcher `exec`, the     *)
(* route selection of `Router`, the location reducer of `LocationProvider` *)
(* and the transition controller of `Router` (current / previous subtrees, *)
(* generation counter, suspension continuations, lifecycle callbacks).     *)
(*                                                                         *)
(* Strings are sequences of one-character strings, so that split, the      *)
(* segment grammar and percent-decoding are computed and not assumed.      *)
(*                                                                         *)
(* Router is given all three callbacks.  The DOM is not part of the model: *)
(* pendingBase and the hydration flags __h / __u copied between vnodes     *)
(* (188-197, 223-237, 248-259) only decide which DOM nodes are reused or   *)
(* removed and are read by nothing else in router.js.                      *)
(***************************************************************************)
EXTENDS Integers, Sequences, FiniteSets, TLC

\* ---------------------------------------------------------------------------
\* Bounds of the model (not program constants)
\* ---------------------------------------------------------------------------
\* navigations dispatched to the location reducer in one behaviour
MaxNav == 2
\* renders the environment causes besides navigations: re-renders of Router by
\* its parent, and re-renders of a descendant that suspend
MaxExtra == 1
\* asynchronous dependencies a route component may still have to load
MaxDeps == 1
\* route-selection attempts applied in one behaviour of SpecSelect
MaxSelect == 2
\* declared routes in a list of children of SpecSelect
MaxChildren == 3
\* segments of a path given to exec in SpecExec
MaxPathLen == 3
\* segments of a pattern given to exec in SpecExec
MaxPatLen == 2

\* ---------------------------------------------------------------------------
\* JavaScript values
\* ---------------------------------------------------------------------------
\* `undefined` (distinct from every string, which is a tuple of characters)
Undefined == <<"undefined">>
\* the exception thrown by decodeURIComponent on a malformed escape
URIError == <<"URIError">>

Max(a, b) == IF a >= b THEN a ELSE b

\* Array.prototype.slice(i) with 1-based i
Slice(s, i) == IF i > Len(s) THEN <<>> ELSE SubSeq(s, i, Len(s))

\* String.prototype.split('/').filter(Boolean): the non-empty segments
RECURSIVE SplitAcc(_, _, _)
SplitAcc(s, i, acc) ==
    LET flush == IF acc = <<>> THEN <<>> ELSE <<acc>>
    IN  IF i > Len(s) THEN flush
        ELSE IF s[i] = "/" THEN flush \o SplitAcc(s, i + 1, <<>>)
        ELSE SplitAcc(s, i + 1, Append(acc, s[i]))

Split(s) == SplitAcc(s, 1, <<>>)

\* Array.prototype.join('/')
RECURSIVE Join(_)
Join(segs) ==
    IF Len(segs) = 0 THEN <<>>
    ELSE IF Len(segs) = 1 THEN segs[1]
    ELSE segs[1] \o <<"/">> \o Join(Tail(segs))

\* The percent escapes that occur in the inputs of this model:
\* %2F is '/', %25 is '%', %41 is 'A'.  Any other use of '%' in the inputs is a
\* malformed escape.
HexDigits == {"0", "1", "2", "3", "4", "5", "6", "7", "8", "9",
              "A", "B", "C", "D", "E", "F", "a", "b", "c", "d", "e", "f"}

Escape(h1, h2) ==
    IF h1 = "2" /\ h2 \in {"F", "f"} THEN <<"/">>
    ELSE IF h1 = "2" /\ h2 = "5" THEN <<"%">>
    ELSE IF h1 = "4" /\ h2 = "1" THEN <<"A">>
    ELSE URIError

\* decodeURIComponent: the decoded string, or URIError when it throws
RECURSIVE DecodeFrom(_, _)
DecodeFrom(s, i) ==
    IF i > Len(s) THEN <<>>
    ELSE IF s[i] # "%"
         THEN LET r == DecodeFrom(s, i + 1)
              IN  IF r = URIError THEN URIError ELSE <<s[i]>> \o r
    ELSE IF i + 2 > Len(s) \/ s[i + 1] \notin HexDigits \/ s[i + 2] \notin HexDigits
         THEN URIError
    ELSE LET ch == Escape(s[i + 1], s[i + 2])
             r == DecodeFrom(s, i + 3)
         IN  IF ch = URIError \/ r = URIError THEN URIError ELSE ch \o r

decodeURIComponent(s) == DecodeFrom(s, 1)

\* url.slice(i).map(decodeURIComponent): URIError if any element throws
RECURSIVE MapDecode(_)
MapDecode(segs) ==
    IF Len(segs) = 0 THEN <<>>
    ELSE LET d == decodeURIComponent(Head(segs))
             r == MapDecode(Tail(segs))
         IN  IF d = URIError \/ r = URIError THEN URIError ELSE <<d>> \o r

\* ---------------------------------------------------------------------------
\* exec (router.js 32-58)
\* ---------------------------------------------------------------------------
Flags == {"+", "*", "?"}

\* (route[i] || '').match(/^(:?)(.*?)([+*?]?)$/): m is the colon, flag the
\* last character when it is one of + * ?, param what lies between
ParseSegment(seg) ==
    LET m == Len(seg) > 0 /\ seg[1] = ":"
        body == IF m THEN Tail(seg) ELSE seg
        hasFlag == Len(body) > 0 /\ body[Len(body)] \in Flags
    IN  [m |-> m,
         param |-> IF hasFlag THEN SubSeq(body, 1, Len(body) - 1) ELSE body,
         flag |-> IF hasFlag THEN body[Len(body)] ELSE ""]

\* obj[key] = val on a mapping
Put(f, k, v) == [x \in DOMAIN f \cup {k} |-> IF x = k THEN v ELSE f[x]]

\* The `matches` object exec works on.  `reserved` are the property names the
\* object has before exec runs (the route's own props and path, query, params,
\* rest); `flat` are the top-level properties exec adds; `params` is the object
\* matches.params refers to, which the caller may share between calls.

\* (a test that lets + pass without a segment)
MissingRequired_lax(present, flag) == ~present /\ flag = ""

\* !val && flag != '?' && flag != '*' (47)
MissingRequired(present, flag) == ~present /\ flag # "?" /\ flag # "*"

\* (a test that lets the wildcard match without a segment)
WildcardMatch_absent(m, present, flag) == ~m /\ flag = "*"

\* !m && val && flag == '*' (42)
WildcardMatch(m, present, flag) == ~m /\ present /\ flag = "*"

\* (a test that finds no property, so that every binding is assigned)
In_never(param, matches) == FALSE

\* param in matches (54)
In(param, matches) == param \in matches.reserved \cup DOMAIN matches.flat

\* One iteration of the loop of exec (36-55) on the pattern segment p (parsed)
\* and the url segment val (Undefined past the end); restVals is
\* url.slice(i).map(decodeURIComponent), which the code computes for the + and
\* * flags only.  status is "next" (go on with i + 1), "match" (return
\* matches), "fail" (return undefined) or "throw".
execStep(p, val, restVals, matches) ==
    LET present == val # Undefined
        isRest == p.flag = "+" \/ p.flag = "*"
        bound == IF isRest
                 THEN (IF restVals = URIError THEN URIError
                       ELSE IF Join(restVals) = <<>> THEN Undefined
                       ELSE Join(restVals))
                 ELSE IF present THEN decodeURIComponent(val)
                 ELSE Undefined
    IN  \* segment match:
        IF ~p.m /\ p.param = val THEN [matches EXCEPT !.status = "next"]
        \* /foo/* match
        ELSE IF WildcardMatch(p.m, present, p.flag)
        THEN (IF restVals = URIError
              THEN [matches EXCEPT !.status = "throw"]
              ELSE [matches EXCEPT !.status = "match",
                                   !.rest = <<"/">> \o Join(restVals)])
        \* segment mismatch / missing required field:
        ELSE IF ~p.m \/ MissingRequired(present, p.flag)
        THEN [matches EXCEPT !.status = "fail"]
        ELSE IF bound = URIError THEN [matches EXCEPT !.status = "throw"]
        ELSE [matches EXCEPT
                !.status = IF isRest THEN "match" ELSE "next",
                !.params = Put(@, p.param, bound),
                !.flat = IF In(p.param, matches)
                         THEN @ ELSE Put(@, p.param, bound)]

\* The loop of exec from index i (1-based) over the segments `segs` of the url
\* and `route` of the pattern.
RECURSIVE execLoop(_, _, _, _)
execLoop(segs, route, i, matches) ==
    IF i > Max(Len(segs), Len(route)) THEN [matches EXCEPT !.status = "match"]
    ELSE CHOOSE out \in
            { IF r.status = "next" THEN execLoop(segs, route, i + 1, r) ELSE r :
                r \in { execStep(ParseSegment(IF i <= Len(route) THEN route[i]
                                                                ELSE <<>>),
                                 IF i <= Len(segs) THEN segs[i] ELSE Undefined,
                                 MapDecode(Slice(segs, i)),
                                 matches) } } : TRUE

\* exec(url, route, matches): `path` is the url argument, route may be
\* Undefined (no path prop)
exec(path, route, matches) ==
    CHOOSE out \in
        { execLoop(t[1], t[2], 1, t[3]) :
            t \in { << Split(path),
                       Split(IF route = Undefined THEN <<>> ELSE route),
                       matches >> } } : TRUE

\* ---------------------------------------------------------------------------
\* Route selection of Router (router.js 165-173)
\* ---------------------------------------------------------------------------
EmptyMap == [k \in {} |-> Undefined]

\* property names as strings of characters
K_path == <<"p", "a", "t", "h">>
K_query == <<"q", "u", "e", "r", "y">>
K_params == <<"p", "a", "r", "a", "m", "s">>
K_rest == <<"r", "e", "s", "t">>
K_default == <<"d", "e", "f", "a", "u", "l", "t">>
K_component == <<"c", "o", "m", "p", "o", "n", "e", "n", "t">>

\* A declared route (a child vnode of Router): its type, and the props path
\* (Undefined when absent), default and component ("none" when absent).
RouteVNode(type, path, default, component) ==
    [type |-> type, path |-> path, default |-> default, component |-> component]

\* "no vnode": the value of `pathRoute` / `defaultRoute` when never assigned
NoVNode == [type |-> "undefined"]

\* matchProps = { ...vnode.props, path: rest, query, params, rest: '' }
MatchProps(vnode, rest, query, params) ==
    [status |-> "init",
     reserved |-> {K_path, K_query, K_params, K_rest}
                    \cup (IF vnode.default THEN {K_default} ELSE {})
                    \cup (IF vnode.component # "none" THEN {K_component} ELSE {}),
     flat |-> EmptyMap,
     params |-> params,
     rest |-> <<>>,
     path |-> rest,
     query |-> query]

\* cloneElement(vnode, matchProps); idx is the position of vnode among the
\* children.  The props hold a reference to the shared params object, whose
\* content is that of SelectRoute(...).params.
cloneElement(vnode, idx, matchProps) ==
    [type |-> vnode.type, component |-> vnode.component, idx |-> idx,
     path |-> matchProps.path, query |-> matchProps.query,
     rest |-> matchProps.rest, flat |-> matchProps.flat]

\* `matchProps` before the first child is visited
NoMatchProps == [status |-> "undefined"]

\* (a loop that keeps the first default route it meets)
AssignDefault_first(defaultRoute, vnode, clone) ==
    IF vnode.default /\ defaultRoute = NoVNode THEN clone ELSE defaultRoute

\* if (vnode.props.default) defaultRoute = cloneElement(vnode, matchProps) (169)
AssignDefault(defaultRoute, vnode, clone) ==
    IF vnode.default THEN clone ELSE defaultRoute

\* one visit of the callback of .some(...) (166-170): child k with the result
\* `matches` of exec on its matchProps
Visit(vnode, k, st, matches) ==
    IF matches.status = "throw"
    THEN [st EXCEPT !.params = matches.params, !.matchProps = matches,
                    !.threw = TRUE]
    ELSE IF matches.status = "match"
    THEN [st EXCEPT !.params = matches.params, !.matchProps = matches,
                    !.pathRoute = cloneElement(vnode, k, matches)]
    ELSE [st EXCEPT !.params = matches.params, !.matchProps = matches,
                    !.defaultRoute =
                        AssignDefault(@, vnode, cloneElement(vnode, k, matches))]

\* toChildArray(props.children).some(...) from child k on.  st carries the
\* shared params object, pathRoute, defaultRoute, the last matchProps assigned
\* and whether exec threw; the loop ends at the first match (or throw).
\* Intermediate results are bound once, as elements of singleton sets.
RECURSIVE SelectLoop(_, _, _, _, _)
SelectLoop(children, k, rest, query, st) ==
    IF k > Len(children) \/ st.threw \/ st.pathRoute # NoVNode THEN st
    ELSE CHOOSE out \in
            { SelectLoop(children, k + 1, rest, query, seen) :
                seen \in { Visit(children[k], k, st, matches) :
                    matches \in { exec(rest, children[k].path,
                                       MatchProps(children[k], rest, query,
                                                  st.params)) } } } : TRUE

\* `incoming = pathRoute || defaultRoute` (173)
Incoming(st) == IF st.pathRoute # NoVNode THEN st.pathRoute ELSE st.defaultRoute

\* lines 165-173: the selection state after the loop, and `incoming`
SelectRoute(children, rest, query, params) ==
    CHOOSE out \in
        { [incoming |-> Incoming(st),
           pathRoute |-> st.pathRoute,
           defaultRoute |-> st.defaultRoute,
           matchProps |-> st.matchProps,
           params |-> st.params,
           threw |-> st.threw] :
          st \in { SelectLoop(children, 1, rest, query,
                              [params |-> params, pathRoute |-> NoVNode,
                               defaultRoute |-> NoVNode,
                               matchProps |-> NoMatchProps,
                               threw |-> FALSE]) } } : TRUE

\* ---------------------------------------------------------------------------
\* The application of the controller model: its routes, urls and components
\* ---------------------------------------------------------------------------
U_a == <<"/", "a">>
U_b1 == <<"/", "b", "/", "1">>
U_b2 == <<"/", "b", "/", "2">>
U_c == <<"/", "c">>

Urls == {U_a, U_b1, U_b2, U_c}

\* the urls the application may be opened at
InitUrls == {U_a, U_b1}

\* <A path="/a" />  <Route path="/b/:id" component={B} />
\* <Route path="/c" component={C} />  <NotFound default />
Children ==
    << RouteVNode("A", <<"/", "a">>, FALSE, "none"),
       RouteVNode("Route", <<"/", "b", "/", ":", "i", "d">>, FALSE, "B"),
       RouteVNode("Route", <<"/", "c">>, FALSE, "C"),
       RouteVNode("NotFound", Undefined, TRUE, "none") >>

\* the component a route vnode renders: Route renders props.component (297)
CompOf(vnode) == IF vnode.type = "Route" THEN vnode.component ELSE vnode.type

Components == {"A", "B", "C", "NotFound"}
\* the components wrapped in lazy(); A and NotFound are imported synchronously
LazyComponents == {"B", "C"}

\* ---------------------------------------------------------------------------
\* State
\* ---------------------------------------------------------------------------
VARIABLES
    \* LocationProvider and the browser
    url,              \* state of useReducer(UPDATE, ...) (64)
    push,             \* module variable `push` (10): "undefined", "true", "false"
    location,         \* location.pathname + location.search of the browser
    loc,              \* the memoised context value (68-79)
    \* Router
    c,                \* state of useReducer(c => c + 1, 0) (144)
    isLoading,        \* isLoading.current (149)
    prevRoute,        \* prevRoute.current (150)
    count,            \* count.current (152)
    cur,              \* cur.current (154)
    prev,             \* prev.current (156)
    hasEverCommitted, \* hasEverCommitted.current (160)
    didSuspend,       \* didSuspend.current (162)
    memoUrl,          \* dependency [url] of the last run of useMemo (186)
    routeChanged,     \* memoised value of useMemo (174-186)
    effDeps,          \* dependencies of the last run of useLayoutEffect (274)
    capP,             \* `p` and `url` closed over by the installed this.__c
    capUrl,
    mounted,          \* Router has rendered once (this.__c is installed)
    \* rendering engine and scheduler
    needs,            \* per component: dependencies still to load
    conts,            \* continuations registered by e.then (217), oldest first
    updatePending,    \* queued RESOLVED.then(update) microtasks (239)
    locDirty,         \* LocationProvider awaits a re-render
    routerDirty,      \* Router awaits a re-render
    \* environment budgets
    navs, extras,
    \* observation of the callbacks
    act,              \* which step led to this state
    lastCalls,        \* callbacks (and scrollTo) invoked by that step, in order
    loadStartN,       \* onLoadStart invocations in the current generation
    loadEndN,         \* onLoadEnd invocations in the current generation
    transition,       \* "pending" from the render of a route-changing url
                      \* change until a commit, "committed" right after it
    \* route-selection harness (SpecSelect)
    selChildren, selPath, selOut, selN,
    \* exec harness (SpecExec)
    exPath,           \* segments of the path, before they are joined
    exSlash,          \* how the path string is written around its segments
    exInto,           \* which `matches` object exec is given
    exPat,            \* segments of the pattern
    exOut,            \* what exec returned / threw
    \* event handler harness (SpecClick)
    scope,            \* module variable `scope` (9)
    lpProps,          \* props of the LocationProvider whose handler is installed
    event,            \* the last event given to the handler
    prevented         \* e.preventDefault() was called on it

locVars == <<url, push, location, loc>>
routerVars == <<c, isLoading, prevRoute, count, cur, prev,
                hasEverCommitted, didSuspend, memoUrl, routeChanged, effDeps,
                capP, capUrl, mounted>>
engineVars == <<needs, conts, updatePending, locDirty, routerDirty>>
budgetVars == <<navs, extras>>
obsVars == <<act, lastCalls, loadStartN, loadEndN, transition>>
selVars == <<selChildren, selPath, selOut, selN>>
execVars == <<exPath, exSlash, exInto, exPat, exOut>>
clickVars == <<scope, lpProps, event, prevented>>
harnessVars == <<selVars, execVars, clickVars>>
vars == <<locVars, routerVars, engineVars, budgetVars, obsVars, harnessVars>>

\* refs holding vnodes: null, and undefined (NoVNode)
Null == [type |-> "null"]
\* the context value before LocationProvider has rendered
NoContext == [url |-> Undefined]

\* ---------------------------------------------------------------------------
\* LocationProvider (router.js 16-30, 63-79)
\* ---------------------------------------------------------------------------
\* index of the first '?' or '#' of a url, or Len + 1
RECURSIVE PathEnd(_, _)
PathEnd(u, i) ==
    IF i > Len(u) \/ u[i] \in {"?", "#"} THEN i ELSE PathEnd(u, i + 1)

\* .replace(/\/+$/g, '')
RECURSIVE StripSlashes(_)
StripSlashes(s) ==
    IF Len(s) > 0 /\ s[Len(s)] = "/" THEN StripSlashes(SubSeq(s, 1, Len(s) - 1)) ELSE s

\* u.pathname.replace(/\/+$/g, '') || '/'
PathOf(u) ==
    LET stripped == StripSlashes(SubSeq(u, 1, PathEnd(u, 1) - 1))
    IN  IF stripped = <<>> THEN <<"/">> ELSE stripped

\* the search string, standing for Object.fromEntries(u.searchParams)
QueryOf(u) ==
    LET e == PathEnd(u, 1)
    IN  IF e <= Len(u) /\ u[e] = "?" THEN Slice(u, e + 1) ELSE <<>>

\* The reducer UPDATE(state, action).  action.kind is "string" (a url string),
\* "object" ({url, replace}).  The result is the new url, the new value of
\* `push` and the browser's location after history.pushState ("true") or
\* history.replaceState ("false"): which of the two was called, if any, is the
\* value `push` is left with.
UPDATE(state, action) ==
    LET isObject == action.kind = "object" /\ action.url # <<>>
        pushNow == IF action.kind = "string" THEN "true"
                   ELSE IF isObject THEN (IF action.replace THEN "false" ELSE "true")
                   ELSE "undefined"
        newUrl == IF action.kind = "string" \/ isObject THEN action.url ELSE location
    IN  [url |-> newUrl,
         push |-> pushNow,
         location |-> IF pushNow = "undefined" THEN location ELSE newUrl]

\* the context value computed by a render of LocationProvider (66-79)
ContextValue ==
    IF loc # NoContext /\ loc.url = url THEN loc
    ELSE [url |-> url, path |-> PathOf(url), query |-> QueryOf(url),
          wasPush |-> (push = "true")]

\* ---------------------------------------------------------------------------
\* Router (router.js 143-280)
\* ---------------------------------------------------------------------------
\* the selection Router makes for each url of the application (top-level
\* Router: rest = path and params = {} from the empty RouteContext, 147)
SelPairs ==
    { <<u, SelectRoute(Children, PathOf(u), QueryOf(u), EmptyMap)>> : u \in Urls }

SelTable == [u \in Urls |-> (CHOOSE pr \in SelPairs : pr[1] = u)[2]]

\* h(RouteContext.Provider, { value: matchProps }, incoming) (191).  The refs
\* keep the identity of the route vnode (type, component, position) and the
\* path and query it was cloned for; its other props and the context value
\* are those SelectRoute computes for that path.
ProviderVNode(sel) ==
    [children |-> IF sel.incoming = NoVNode THEN NoVNode
                  ELSE [type |-> sel.incoming.type,
                        component |-> sel.incoming.component,
                        idx |-> sel.incoming.idx,
                        path |-> sel.incoming.path,
                        query |-> sel.incoming.query]]

\* prev.current && prev.current.props.children (178)
Outgoing(vnode) == IF vnode \in {NoVNode, Null} THEN NoVNode ELSE vnode.children

\* (a route-change test that no longer looks at the component)
RouteDiffers_always(outgoing, incoming) == TRUE

\* the condition of line 179
RouteDiffers(outgoing, incoming) ==
    \/ outgoing = NoVNode
    \/ incoming = NoVNode
    \/ incoming.type # outgoing.type
    \/ incoming.component # outgoing.component

\* (a continuation that never checks its generation)
IsStale_never(captured, current) == FALSE

\* (a continuation that always gives up)
IsStale_always(captured, current) == TRUE

\* the guard of the continuation (219): is this completion stale
IsStale(captured, current) == captured # current

\* (a suspension handler that does not restore the previous route)
PrevAfterRender_cleared(susp, p) == Null

\* prev.current after cur has rendered: reset to null (201), restored to p by
\* this.__c when the render suspended (209)
PrevAfterRender(susp, p) == IF susp THEN p ELSE Null

\* does rendering this incoming route throw a promise
Suspends(incoming) == incoming # NoVNode /\ needs[CompOf(incoming)] > 0

\* the continuation e.then(...) registered by this.__c for generation g
NewCont(g, incoming) ==
    [c |-> g, comp |-> CompOf(incoming), level |-> needs[CompOf(incoming)]]

\* the invocation counters restart when the generation changes (observation
\* only: nothing in the program reads them)
Tally(n, oldGen, newGen, fired) ==
    (IF newGen = oldGen THEN n ELSE 0) + (IF fired THEN 1 ELSE 0)

\* the mark of a commit lasts one step (observation only)
Carry(t) == IF t = "committed" THEN "none" ELSE t

\* One render cycle: LocationProvider (when its state changed), then Router
\* when the context value changed, Router itself is dirty or its parent
\* re-renders it: the body of Router, the render of cur (which calls this.__c
\* when it suspends), the render of prev, and the layout effect.
Render(byParent) ==
    \E value \in {ContextValue} : \E sel \in {SelTable[value.url]} :
       LET first == ~mounted
           renders == first \/ routerDirty \/ byParent \/ value # loc
           incoming == sel.incoming
           \* useMemo (174-186)
           memoRuns == first \/ memoUrl # value.url
           prevMemo == IF memoRuns THEN cur ELSE prev
           changed == RouteDiffers(Outgoing(prevMemo), incoming)
           count1 == IF memoRuns /\ changed THEN count + 1 ELSE count
           routeChanged1 == IF memoRuns THEN changed ELSE routeChanged
           \* 199-201
           p == prevMemo
           \* render of cur: this.__c runs when it suspends (204-216)
           susp == Suspends(incoming)
           \* layout effect (243-274)
           deps == <<value.path, value.wasPush, c>>
           effRuns == first \/ effDeps # deps
           prevRoute0 == IF first THEN value.path ELSE prevRoute
           commits == effRuns /\ ~susp
           pathChanged == prevRoute0 # value.path
           loading1 == isLoading \/ susp
           pending == transition = "pending" \/ (memoRuns /\ changed /\ ~first)
           calls == (IF susp THEN << <<"onLoadStart", value.url>> >> ELSE <<>>)
                    \o (IF commits /\ pathChanged /\ value.wasPush
                        THEN << <<"scrollTo", value.url>> >> ELSE <<>>)
                    \o (IF commits /\ pathChanged
                        THEN << <<"onRouteChange", value.url>> >> ELSE <<>>)
                    \o (IF commits /\ loading1
                        THEN << <<"onLoadEnd", value.url>> >> ELSE <<>>)
       IN  /\ loc' = value
           /\ locDirty' = FALSE
           /\ routerDirty' = FALSE
           /\ UNCHANGED <<url, push, location, c, needs, updatePending, navs, harnessVars>>
           /\ IF ~renders
              THEN /\ UNCHANGED <<isLoading, prevRoute, count, cur, prev,
                                  hasEverCommitted, didSuspend, memoUrl, routeChanged,
                                  effDeps, capP, capUrl, mounted, conts,
                                  loadStartN, loadEndN>>
                   /\ lastCalls' = <<>>
                   /\ transition' = Carry(transition)
                   /\ act' = "renderProvider"
              ELSE IF sel.threw
              THEN \* exec threw inside the body of Router (167): the render is
                   \* abandoned after line 163
                   /\ didSuspend' = FALSE
                   /\ mounted' = mounted
                   /\ UNCHANGED <<isLoading, prevRoute, count, cur, prev,
                                  hasEverCommitted, memoUrl, routeChanged,
                                  effDeps, capP, capUrl, conts,
                                  loadStartN, loadEndN>>
                   /\ lastCalls' = <<>>
                   /\ transition' = Carry(transition)
                   /\ act' = "renderThrew"
              ELSE /\ mounted' = TRUE
                   /\ memoUrl' = value.url
                   /\ routeChanged' = routeChanged1
                   /\ count' = count1
                   /\ cur' = ProviderVNode(sel)
                   /\ capP' = p
                   /\ capUrl' = value.url
                   /\ didSuspend' = susp
                   /\ prev' = PrevAfterRender(susp, p)
                   /\ conts' = IF susp THEN Append(conts, NewCont(count1, incoming))
                               ELSE conts
                   /\ effDeps' = IF effRuns THEN deps ELSE effDeps
                   /\ hasEverCommitted' = (hasEverCommitted \/ commits)
                   /\ prevRoute' = IF commits THEN value.path ELSE prevRoute0
                   /\ isLoading' = IF commits THEN FALSE ELSE loading1
                   /\ loadStartN' = Tally(loadStartN, count, count1, susp)
                   /\ loadEndN' = Tally(loadEndN, count, count1, commits /\ loading1)
                   /\ lastCalls' = calls
                   /\ transition' = IF ~pending THEN "none"
                                    ELSE IF commits THEN "committed"
                                    ELSE "pending"
                   /\ act' = IF byParent THEN "rerender"
                             ELSE IF memoRuns /\ changed THEN "renderRouteChange"
                             ELSE IF memoRuns THEN "renderSameRoute"
                             ELSE "render"

\* A descendant of the current route re-renders on its own and throws a
\* promise: the engine calls the installed this.__c (204-241) outside of any
\* render of Router (when Router is dirty too, the engine renders Router
\* first and the descendant as part of that cycle).
ChildSuspend ==
    /\ mounted
    /\ extras < MaxExtra
    /\ ~locDirty /\ ~routerDirty
    /\ cur # NoVNode
    /\ Suspends(cur.children)
    /\ extras' = extras + 1
    /\ didSuspend' = TRUE
    /\ prev' = capP
    /\ isLoading' = TRUE
    /\ conts' = Append(conts, NewCont(count, cur.children))
    /\ loadStartN' = Tally(loadStartN, count, count, TRUE)
    /\ lastCalls' = << <<"onLoadStart", capUrl>> >>
    /\ transition' = Carry(transition)
    /\ act' = "childSuspend"
    /\ UNCHANGED <<locVars, c, prevRoute, count, cur, hasEverCommitted, memoUrl,
                   routeChanged, effDeps, capP, capUrl, mounted, needs,
                   updatePending, locDirty, routerDirty, navs,
                   loadEndN, harnessVars>>

\* A dependency of a lazy component finishes loading: the promise thrown for
\* it resolves.  (A load that finishes before any render threw its promise
\* is a component that starts with fewer dependencies.)
Resolve(comp) ==
    /\ needs[comp] > 0
    /\ \E i \in 1 .. Len(conts) :
          conts[i].comp = comp /\ conts[i].level = needs[comp]
    /\ needs' = [needs EXCEPT ![comp] = @ - 1]
    /\ lastCalls' = <<>>
    /\ transition' = Carry(transition)
    /\ act' = "resolve"
    /\ UNCHANGED <<locVars, routerVars, conts, updatePending, locDirty, routerDirty,
                   budgetVars, loadStartN, loadEndN, harnessVars>>

\* a registered continuation may run once its promise has resolved, after the
\* continuations registered earlier on the same promise
Runnable(i) ==
    /\ needs[conts[i].comp] < conts[i].level
    /\ \A j \in 1 .. (i - 1) :
          ~(conts[j].comp = conts[i].comp /\ conts[j].level = conts[i].level)

RemoveAt(s, i) == SubSeq(s, 1, i - 1) \o SubSeq(s, i + 1, Len(s))

\* (a continuation that leaves the previous route in place)
PrevAfterSettle_kept(pv) == pv

\* prev.current = null in the continuation of the current generation (222)
PrevAfterSettle(pv) == Null

\* The continuation of line 217 runs.
Continuation(i) ==
    /\ Runnable(i)
    /\ conts' = RemoveAt(conts, i)
    /\ lastCalls' = <<>>
    /\ transition' = Carry(transition)
    /\ IF IsStale(conts[i].c, count)
       THEN /\ act' = "discard"
            /\ UNCHANGED <<prev, updatePending>>
       ELSE /\ act' = "settle"
            /\ prev' = PrevAfterSettle(prev)
            /\ updatePending' = updatePending + 1
    /\ UNCHANGED <<locVars, c, isLoading, prevRoute, count, cur, hasEverCommitted,
                   didSuspend, memoUrl, routeChanged, effDeps, capP, capUrl, mounted,
                   needs, locDirty, routerDirty, budgetVars, loadStartN, loadEndN,
                   harnessVars>>

\* The microtask RESOLVED.then(update) runs: dispatch to c => c + 1 (144, 239)
UpdateTick ==
    /\ updatePending > 0
    /\ updatePending' = updatePending - 1
    /\ c' = c + 1
    /\ routerDirty' = TRUE
    /\ lastCalls' = <<>>
    /\ transition' = Carry(transition)
    /\ act' = "update"
    /\ UNCHANGED <<locVars, isLoading, prevRoute, count, cur, prev, hasEverCommitted,
                   didSuspend, memoUrl, routeChanged, effDeps, capP, capUrl, mounted,
                   needs, conts, locDirty, budgetVars, loadStartN, loadEndN, harnessVars>>

\* A dispatch to the location reducer: route(url) of the click handler (125)
\* is the "string" kind, the context's route(url, replace) (76) the "object"
\* kind.  useReducer schedules a render only when the state changes.
Navigate(action) ==
    /\ navs < MaxNav
    /\ LET r == UPDATE(url, action)
       IN  /\ url' = r.url
           /\ push' = r.push
           /\ location' = r.location
           /\ locDirty' = (locDirty \/ r.url # url)
    /\ navs' = navs + 1
    /\ lastCalls' = <<>>
    /\ transition' = Carry(transition)
    /\ act' = "navigate"
    /\ UNCHANGED <<loc, routerVars, needs, conts, updatePending, routerDirty,
                   extras, loadStartN, loadEndN, harnessVars>>

\* The render cycle the scheduler runs for the components marked dirty.
RenderCycle ==
    /\ locDirty \/ routerDirty
    /\ Render(FALSE)
    /\ UNCHANGED extras

\* The parent of Router re-renders and with it Router, in the same cycle as
\* whatever else is dirty.
ParentRerender ==
    /\ mounted
    /\ extras < MaxExtra
    /\ extras' = extras + 1
    /\ Render(TRUE)

\* ---------------------------------------------------------------------------
\* Route-selection harness: SelectRoute applied to bounded inputs
\* ---------------------------------------------------------------------------
SelRoutes ==
    { RouteVNode("Home", <<"/">>, FALSE, "none"),
      RouteVNode("A", <<"/", "a">>, FALSE, "none"),
      RouteVNode("P", <<"/", ":", "x">>, FALSE, "none"),
      RouteVNode("NotFound", Undefined, TRUE, "none"),
      RouteVNode("Fallback", Undefined, TRUE, "none"),
      RouteVNode("Err", <<"/", "e">>, TRUE, "none") }

\* no selection made yet
NoSelection == [threw |-> FALSE]

SelChildrenLists ==
    UNION { [1 .. n -> SelRoutes] : n \in 1 .. MaxChildren }

SelPaths == { <<"/">>, <<"/", "a">>, <<"/", "e">>, <<"/", "a", "/", "b">> }

Select(path) ==
    /\ selN < MaxSelect
    /\ selN' = selN + 1
    /\ selPath' = path
    /\ selOut' = SelectRoute(selChildren, path, <<>>, EmptyMap)
    /\ UNCHANGED <<selChildren, locVars, routerVars, engineVars, budgetVars, obsVars,
                   execVars, clickVars>>

\* ---------------------------------------------------------------------------
\* exec harness: exec applied to bounded paths and patterns
\* ---------------------------------------------------------------------------
\* path segments: a plain one, one that ends in '+', the escape of 'A', a
\* malformed escape
PathSegs == { <<"a">>, <<"a", "+">>, <<"%", "4", "1">>, <<"%", "z", "z">> }

\* pattern segments: literals (one ending in '+', one in '*'), a parameter
\* with each flag, the bare wildcard, and a parameter named like a property of
\* matchProps
PatSegs ==
    { <<"a">>, <<"b">>, <<"a", "+">>, <<"b", "*">>, <<":", "x">>,
      <<":", "x", "?">>, <<":", "x", "*">>, <<":", "x", "+">>, <<"*">>,
      <<":", "p", "a", "t", "h">> }

SeqsUpTo(S, n) == UNION { [1 .. k -> S] : k \in 0 .. n }

\* the ways the path string is written: "/a/b", "/a/b/", "a/b"
Slashes == {"plain", "trailing", "bare"}

PathString(segs, slash) ==
    (IF slash = "bare" THEN <<>> ELSE <<"/">>)
        \o Join(segs)
        \o (IF slash = "trailing" THEN <<"/">> ELSE <<>>)

PatternString(segs) == <<"/">> \o Join(segs)

\* no call made yet
NoResult == [status |-> "none"]

\* matches = {} (the default of line 32) once line 35 has given it params
EmptyMatches ==
    [status |-> "init", reserved |-> {K_params}, flat |-> EmptyMap,
     params |-> EmptyMap, rest |-> Undefined, path |-> Undefined,
     query |-> Undefined]

\* the object exec is called with: {} or the matchProps Router builds (167)
MatchesFor(into, pathStr, patStr) ==
    IF into = "empty" THEN EmptyMatches
    ELSE MatchProps(RouteVNode("Route", patStr, FALSE, "none"), pathStr,
                    <<>>, EmptyMap)

ExecApply(pat) ==
    /\ exOut = NoResult
    /\ exPat' = pat
    /\ exOut' = exec(PathString(exPath, exSlash), PatternString(pat),
                     MatchesFor(exInto, PathString(exPath, exSlash),
                                PatternString(pat)))
    /\ UNCHANGED <<exPath, exSlash, exInto, locVars, routerVars, engineVars,
                   budgetVars, obsVars, selVars, clickVars>>

\* ---------------------------------------------------------------------------
\* Event handler harness: the click / popstate handler of LocationProvider
\* (90-126) and the module variable `scope` (9-15, 65)
\* ---------------------------------------------------------------------------
\* location.origin, and another origin, each as one symbol
Origin == "O"
Elsewhere == "X"

StartsWith(s, pre) == Len(s) >= Len(pre) /\ SubSeq(s, 1, Len(pre)) = pre

EndsWith(s, suf) == Len(s) >= Len(suf) /\ SubSeq(s, Len(s) - Len(suf) + 1, Len(s)) = suf

\* `scope` never assigned
NoScope == [kind |-> "undefined"]

\* a scope given as a string
ScopeString(text) == [kind |-> "string", text |-> text]

\* a scope given as a RegExp of the form /text$/
ScopeRegExp(text) == [kind |-> "regexp", text |-> text]

\* scope.test(url) for these RegExps
Test(re, u) == EndsWith(u, re.text)

\* the scopes in use: "/b" and /\/1$/
Scopes == { ScopeString(<<"/", "b">>), ScopeRegExp(<<"/", "1">>) }

\* IS_IN_SCOPE(url) (11-15) for a value sc of `scope`
InScope(sc, u) ==
    sc = NoScope \/ (IF sc.kind = "string" THEN StartsWith(u, sc.text) ELSE Test(sc, u))

IS_IN_SCOPE(u) == InScope(scope, u)

\* props of a LocationProvider: url (Undefined when absent), scope, and
\* whether onPopStateChange is given
PropsSet ==
    [url : {Undefined, U_a}, scope : {NoScope} \cup Scopes, onPopStateChange : BOOLEAN]

NoProps == [url |-> Undefined, scope |-> NoScope, onPopStateChange |-> FALSE]

\* href attributes: relative urls, an anchor, an absolute url of this origin
\* and one of another origin
Hrefs ==
    { U_a, U_b1, U_c, <<"#", "x">>, <<Origin>> \o U_b1, <<Elsewhere>> \o U_b1 }

\* link.origin
LinkOrigin(href) == IF href[1] = Elsewhere THEN Elsewhere ELSE Origin

\* href.replace(location.origin, '')
StripOrigin(href) == IF href[1] = Origin THEN Tail(href) ELSE href

NoEvent == [type |-> "none"]

\* click events: `modified` is ctrlKey || metaKey || altKey || shiftKey ||
\* button !== 0, `link` whether e.target.closest('a[href]') finds a link,
\* target the link's target attribute; popstate events carry
\* e.target.location.pathname
Events ==
    [type : {"click"}, modified : BOOLEAN, link : {TRUE}, target : {"", "_blank"},
     href : Hrefs]
    \cup [type : {"click"}, modified : BOOLEAN, link : {FALSE}, target : {""},
          href : {<<>>}]
    \cup [type : {"popstate"}, modified : {FALSE}, link : {FALSE}, target : {""},
          href : {U_a, U_c}]

\* the checks of a click that make the handler return (108-118)
Ignored(ev) ==
    \/ ~ev.link
    \/ LinkOrigin(ev.href) # Origin
    \/ ev.href[1] = "#"
    \/ ev.target \notin {"", "_self", "self"}
    \/ (lpProps.url = Undefined /\ ~IS_IN_SCOPE(ev.href))

\* route(u): a dispatch of the url string u to the reducer UPDATE
Route(u) ==
    \E r \in {UPDATE(url, [kind |-> "string", url |-> u, replace |-> FALSE])} :
        /\ url' = r.url
        /\ push' = r.push
        /\ location' = r.location
        /\ locDirty' = (locDirty \/ r.url # url)

\* handler(e) (91-126)
Handler(ev) ==
    /\ event' = ev
    /\ act' = "handler"
    /\ IF ev.type = "popstate"
       THEN /\ prevented' = FALSE
            /\ IF lpProps.url # Undefined /\ lpProps.onPopStateChange
               THEN /\ lastCalls' = << <<"onPopStateChange", ev.href>> >>
                    /\ UNCHANGED <<url, push, location, locDirty>>
               ELSE /\ lastCalls' = <<>>
                    /\ Route(ev.href)
       ELSE /\ lastCalls' = <<>>
            /\ IF ev.modified \/ Ignored(ev)
               THEN /\ prevented' = FALSE
                    /\ UNCHANGED <<url, push, location, locDirty>>
               ELSE /\ prevented' = TRUE
                    /\ IF lpProps.url # Undefined
                       THEN UNCHANGED <<url, push, location, locDirty>>
                       ELSE Route(StripOrigin(ev.href))
    /\ UNCHANGED <<loc, routerVars, needs, conts, updatePending, routerDirty,
                   budgetVars, loadStartN, loadEndN, transition, selVars, execVars,
                   scope, lpProps>>

\* a render of a LocationProvider with the props pr: if (props.scope) scope =
\* props.scope (65)
AssignScope(pr) ==
    /\ scope' = IF pr.scope # NoScope THEN pr.scope ELSE scope
    /\ act' = "renderScope"
    /\ UNCHANGED <<locVars, routerVars, engineVars, budgetVars, lastCalls,
                   loadStartN, loadEndN, transition, selVars, execVars, lpProps,
                   event, prevented>>

\* this provider renders again
ProviderRender == AssignScope(lpProps)

\* another LocationProvider of the page renders
OtherProviderRender == \E pr \in PropsSet : pr # lpProps /\ AssignScope(pr)

\* ---------------------------------------------------------------------------
\* Specifications
\* ---------------------------------------------------------------------------
NavActions ==
    { [kind |-> "string", url |-> u, replace |-> FALSE] : u \in Urls }
    \cup { [kind |-> "object", url |-> u, replace |-> b] : u \in Urls, b \in BOOLEAN }
    \cup { [kind |-> "object", url |-> <<>>, replace |-> FALSE] }

\* the state when LocationProvider and Router are created, before the first
\* render: url is props.url || location.pathname + location.search (64)
InitController(u, n) ==
    /\ url = u /\ push = "undefined" /\ location = u /\ loc = NoContext
    /\ c = 0 /\ isLoading = FALSE /\ prevRoute = Undefined /\ count = 0
    /\ cur = NoVNode /\ prev = NoVNode
    /\ hasEverCommitted = FALSE /\ didSuspend = FALSE
    /\ memoUrl = Undefined /\ routeChanged = FALSE /\ effDeps = Undefined
    /\ capP = NoVNode /\ capUrl = Undefined /\ mounted = FALSE
    /\ needs = n /\ conts = <<>> /\ updatePending = 0
    /\ locDirty = TRUE /\ routerDirty = TRUE
    /\ navs = 0 /\ extras = 0
    /\ act = "init" /\ lastCalls = <<>>
    /\ loadStartN = 0 /\ loadEndN = 0
    /\ transition = "none"

NeedsInit ==
    { n \in [Components -> 0 .. MaxDeps] : \A k \in Components \ LazyComponents : n[k] = 0 }

\* the harnesses at rest
SelectIdle ==
    selChildren = <<>> /\ selPath = <<>> /\ selOut = NoSelection /\ selN = 0

ExecIdle ==
    /\ exPath = <<>> /\ exSlash = "plain" /\ exInto = "empty"
    /\ exPat = <<>> /\ exOut = NoResult

ClickIdle ==
    scope = NoScope /\ lpProps = NoProps /\ event = NoEvent /\ prevented = FALSE

Init ==
    /\ \E u \in InitUrls, n \in NeedsInit : InitController(u, n)
    /\ SelectIdle
    /\ ExecIdle
    /\ ClickIdle

Next ==
    \/ RenderCycle
    \/ ChildSuspend
    \/ \E k \in Components : Resolve(k)
    \/ \E i \in 1 .. Len(conts) : Continuation(i)
    \/ UpdateTick
    \/ \E a \in NavActions : Navigate(a)
    \/ ParentRerender

Spec == Init /\ [][Next]_vars

\* Every scheduled microtask runs, and every pending load eventually finishes.
Scheduled ==
    \/ RenderCycle
    \/ UpdateTick
    \/ \E i \in 1 .. Len(conts) : Continuation(i)
    \/ \E k \in Components : Resolve(k)

Fairness == WF_vars(Scheduled)

FairSpec == Spec /\ Fairness

InitSelect ==
    /\ InitController(U_a, [k \in Components |-> 0])
    /\ selChildren \in SelChildrenLists
    /\ selPath = <<>> /\ selOut = NoSelection /\ selN = 0
    /\ ExecIdle
    /\ ClickIdle

NextSelect == \E path \in SelPaths : Select(path)

SpecSelect == InitSelect /\ [][NextSelect]_vars

InitExec ==
    /\ InitController(U_a, [k \in Components |-> 0])
    /\ SelectIdle
    /\ exPath \in SeqsUpTo(PathSegs, MaxPathLen)
    /\ exSlash \in Slashes
    /\ exInto \in {"empty", "props"}
    /\ exPat = <<>> /\ exOut = NoResult
    /\ ClickIdle

NextExec == \E pat \in SeqsUpTo(PatSegs, MaxPatLen) : ExecApply(pat)

SpecExec == InitExec /\ [][NextExec]_vars

\* a LocationProvider after its first render, on a page where `scope` may
\* have been assigned by another provider before
InitClick ==
    /\ InitController(U_a, [k \in Components |-> 0])
    /\ SelectIdle
    /\ ExecIdle
    /\ lpProps \in PropsSet
    /\ \E before \in {NoScope} \cup Scopes :
          scope = IF lpProps.scope # NoScope THEN lpProps.scope ELSE before
    /\ event = NoEvent /\ prevented = FALSE

NextClick ==
    \/ \E ev \in Events : Handler(ev)
    \/ ProviderRender
    \/ OtherProviderRender

SpecClick == InitClick /\ [][NextClick]_vars

\* ---------------------------------------------------------------------------
\* Properties
\* ---------------------------------------------------------------------------
Calls(calls, name) == {i \in 1 .. Len(calls) : calls[i][1] = name}

Fired(name) == Calls(lastCalls, name) # {}

IsVNode(v) == v \notin {Null, NoVNode}

\* the identity of a route: the type of its vnode and its component prop
Identity(v) == <<v.type, v.component>>

\* no promise thrown in the current generation has resolved yet
StillPending ==
    \A i \in 1 .. Len(conts) :
        conts[i].c = count => needs[conts[i].comp] >= conts[i].level

\* the last render suspended and the outgoing subtree is kept and rendered
Retained == IsVNode(prev) /\ didSuspend /\ routeChanged

\* C1: when a route-changing render suspends, the subtree that was current is
\* put in prev and rendered; and as long as no promise of the current
\* generation has resolved and no navigation is dispatched or pending, every
\* step (re-render, re-suspension, stale completion, update) leaves that
\* subtree in prev, still rendered.
C1_PreviousHeldUntilResolution ==
    [][ /\ (act' = "renderRouteChange" /\ didSuspend')
              => (prev' = cur /\ routeChanged')
        /\ (Retained /\ StillPending /\ StillPending'
              /\ url = memoUrl /\ act' # "navigate")
              => (prev' = prev /\ Retained') ]_vars

\* committed A, navigation to B suspended, a re-render by the parent suspended
\* again, and A is still what prev holds
C1_Witness ==
    /\ act = "rerender" /\ hasEverCommitted /\ Retained /\ StillPending
    /\ prev.children.type = "A"
    /\ cur.children.component = "B"

\* C2: a continuation whose captured generation differs from count.current
\* changes nothing of the controller and calls nothing; and an update is
\* scheduled only by a continuation whose captured generation is the current
\* one.
C2_StaleCompletionIsNoOp ==
    [][ /\ \A i \in 1 .. Len(conts) :
              (conts' = RemoveAt(conts, i) /\ conts[i].c # count)
                 => /\ UNCHANGED <<locVars, routerVars, needs, updatePending,
                                   locDirty, routerDirty>>
                    /\ lastCalls' = <<>>
        /\ (updatePending' > updatePending)
              => \E i \in 1 .. Len(conts) :
                    conts' = RemoveAt(conts, i) /\ conts[i].c = count ]_vars

\* two navigations were rendered and suspended before anything resolved; the
\* completion of the superseded one has just run and was discarded
C2_Witness ==
    /\ act = "discard" /\ navs = 2 /\ count = 3
    /\ c = 0 /\ updatePending = 0
    /\ isLoading /\ IsVNode(prev)
    /\ \E i \in 1 .. Len(conts) : conts[i].c = count

\* a render that observes a new url whose selected route differs in identity
\* from the route held by cur (or there is none on one side)
RouteChangingRender ==
    /\ memoUrl' # memoUrl
    /\ LET incoming == SelTable[memoUrl'].incoming
           outgoing == Outgoing(cur)
       IN  \/ incoming = NoVNode
           \/ outgoing = NoVNode
           \/ Identity(incoming) # Identity(outgoing)

\* a render that observes a new url whose selected route has the identity of
\* the route held by cur
SameRouteRender ==
    /\ memoUrl' # memoUrl
    /\ LET incoming == SelTable[memoUrl'].incoming
           outgoing == Outgoing(cur)
       IN  /\ incoming # NoVNode
           /\ outgoing # NoVNode
           /\ Identity(incoming) = Identity(outgoing)

\* C3: a same-route update calls none of onRouteChange, onLoadStart and
\* onLoadEnd and leaves prev as it was.
C3_SameRouteUpdateIsSilent ==
    [][ SameRouteRender
          => /\ Calls(lastCalls', "onRouteChange") = {}
             /\ Calls(lastCalls', "onLoadStart") = {}
             /\ Calls(lastCalls', "onLoadEnd") = {}
             /\ prev' = prev ]_vars

\* C4: onLoadStart is called at most once while count.current keeps its value.
C4_LoadStartOncePerGeneration == loadStartN <= 1

\* C5: a commit calls onLoadEnd only if onLoadStart was called in the
\* generation that commits.
C5_LoadEndOnlyAfterLoadStart == Fired("onLoadEnd") => loadStartN >= 1

\* the commit that settles a suspended navigation: the render did not suspend,
\* nothing is retained, and onLoadEnd was called exactly once, with the url
Settlement ==
    /\ ~didSuspend /\ hasEverCommitted
    /\ prev = Null
    /\ ~isLoading
    /\ Cardinality(Calls(lastCalls, "onLoadEnd")) = 1
    /\ \A i \in Calls(lastCalls, "onLoadEnd") : lastCalls[i][2] = url

\* C6: from a state where the latest render suspended, unless a further
\* navigation is dispatched, a commit is reached that did not suspend, with
\* prev cleared, onLoadEnd called exactly once with the current url and the
\* loading flag false.
C6_SettlementIsReached ==
    (didSuspend /\ isLoading /\ url = memoUrl)
        ~> (Settlement \/ act = "navigate")

\* committed A, B suspended, B's promise resolved and its commit called
\* onLoadEnd
C6_Witness ==
    /\ Settlement /\ act = "render"
    /\ navs = 1 /\ count = 2
    /\ cur.children.component = "B"
    /\ loadStartN >= 1

\* C7: a route-changing render that suspends while an earlier suspended
\* navigation still retains the committed subtree leaves prev as it was.
C7_SecondSuspensionKeepsPrevious ==
    [][ (hasEverCommitted /\ Retained /\ StillPending
           /\ RouteChangingRender /\ didSuspend')
          => prev' = prev ]_vars

\* C8: count.current never decreases; it changes only in a render that
\* observes a route-changing url, and then by exactly one.
C8_GenerationCounter ==
    [][ /\ count' >= count
        /\ (count' # count) => (count' = count + 1 /\ RouteChangingRender)
        /\ RouteChangingRender => count' = count + 1 ]_vars

\* a same-route url update (/b/1 -> /b/2) was rendered after a route change
\* and left the counter alone
C8_Witness ==
    /\ act = "renderSameRoute" /\ count = 2 /\ navs = 2
    /\ memoUrl = U_b2

\* the step was a render of Router (its body ran to the end)
Rendered == act \in {"rerender", "renderRouteChange", "renderSameRoute", "render"}

\* C17: the commit of a route-changing navigation (one that follows the render
\* of a url change to a different route, at once or after suspensions) calls
\* onRouteChange exactly once, with the url; a render cycle that suspended
\* does not call onRouteChange.
C17_RouteChangeOncePerCommit ==
    /\ transition = "committed"
          => /\ Cardinality(Calls(lastCalls, "onRouteChange")) = 1
             /\ \A i \in Calls(lastCalls, "onRouteChange") : lastCalls[i][2] = memoUrl
    /\ (Rendered /\ didSuspend) => ~Fired("onRouteChange")

\* C20: prev holds a route only while the most recent render of the current
\* route suspended: it is empty after a render that did not suspend, and
\* after the continuation of the current generation has run.
C20_PreviousOnlyWhileSuspended ==
    /\ IsVNode(prev) => didSuspend
    /\ (Rendered /\ ~didSuspend) => ~IsVNode(prev)
    /\ act = "settle" => prev = Null

\* the continuation of the current generation has just run: the route that
\* was restored when the render suspended is no longer in prev
C20_Witness ==
    /\ act = "settle" /\ didSuspend /\ isLoading
    /\ IsVNode(capP) /\ prev = Null

\* C18: scrollTo(0, 0) is called only in the commit of a route-changing
\* navigation whose location was reached by a push; never after a replace and
\* never in an update that keeps the route.
C18_ScrollOnlyOnPushedRouteChange ==
    Fired("scrollTo") => (transition = "committed" /\ loc.wasPush)


\* --- route selection (SpecSelect) ---
SetMin(S) == CHOOSE x \in S : \A y \in S : x <= y

SetMax(S) == CHOOSE x \in S : \A y \in S : x >= y

\* does exec succeed on child k for the selected path
ExecMatches(k) ==
    exec(selPath, selChildren[k].path,
         MatchProps(selChildren[k], selPath, <<>>, EmptyMap)).status = "match"

\* the children that declare a pattern (a path prop) which matches
DeclaredMatches ==
    {k \in 1 .. Len(selChildren) :
        selChildren[k].path # Undefined /\ ExecMatches(k)}

Defaults == {k \in 1 .. Len(selChildren) : selChildren[k].default}

\* position of the selected child, 0 when nothing is selected
Selected == IF selOut.incoming = NoVNode THEN 0 ELSE selOut.incoming.idx

\* C9: the selected route is the first child whose declared pattern matches;
\* when none matches it is a child flagged default, or nothing.
C9_FirstMatchElseDefault ==
    (selN > 0 /\ ~selOut.threw)
        => IF DeclaredMatches # {}
           THEN Selected = SetMin(DeclaredMatches)
           ELSE Selected \in Defaults \cup {0}

\* C10 as stated: with no declared pattern matching and several children
\* flagged default, the first of them is selected.
C10_FirstDefaultSelected ==
    (selN > 0 /\ ~selOut.threw /\ DeclaredMatches = {}
       /\ Cardinality(Defaults) >= 2)
        => Selected = SetMin(Defaults)

\* C10: when exec fails for every child (a child without path is matched as
\* the empty pattern) and some children are flagged default, the last of them
\* is selected.
C10_LastDefaultSelected ==
    (selN > 0 /\ ~selOut.threw /\ Defaults # {}
       /\ \A k \in 1 .. Len(selChildren) : ~ExecMatches(k))
        => Selected = SetMax(Defaults)

\* two different default routes, nothing matches, the later one is selected
C10_Witness ==
    /\ selN > 0
    /\ \A k \in 1 .. Len(selChildren) : ~ExecMatches(k)
    /\ Cardinality(Defaults) >= 2
    /\ selChildren[SetMin(Defaults)].type # selChildren[SetMax(Defaults)].type
    /\ Selected = SetMax(Defaults)
    /\ selOut.pathRoute = NoVNode

\* what exec binds when child k is matched on its own, with the ambient params
OwnParams(k) ==
    exec(selPath, selChildren[k].path,
         MatchProps(selChildren[k], selPath, <<>>, EmptyMap)).params

\* C21: the params delivered to the selected route are the ambient params
\* plus the bindings of the successful match of its own pattern (none for a
\* route selected as the default); bindings made while matching an earlier
\* child whose pattern then failed are not among them.
C21_FreshParamsPerAttempt ==
    (selN > 0 /\ ~selOut.threw /\ Selected # 0)
        => selOut.params = IF selOut.pathRoute # NoVNode
                           THEN OwnParams(Selected)
                           ELSE EmptyMap

\* --- exec (SpecExec) ---
\* how a pattern segment reads: ":name" with an optional flag, the bare "*",
\* or a literal
IsParam(seg) == Len(seg) > 1 /\ seg[1] = ":"

IsWildcard(seg) == seg = <<"*">>

IsLiteral(seg) == ~IsParam(seg) /\ ~IsWildcard(seg)

\* a literal that does not end in one of the flag characters
IsPlainLiteral(seg) == IsLiteral(seg) /\ seg[Len(seg)] \notin {"+", "*", "?"}

FlagOf(seg) == IF IsParam(seg) /\ seg[Len(seg)] \in {"+", "*", "?"}
               THEN seg[Len(seg)] ELSE ""

NameOf(seg) == SubSeq(seg, 2, IF FlagOf(seg) = "" THEN Len(seg) ELSE Len(seg) - 1)

\* what a well-formed path segment stands for
Decoded(seg) == IF seg = <<"%", "4", "1">> THEN <<"A">> ELSE seg

\* the path segments from index i on, decoded and joined by '/'
Remaining(i) == Join([k \in 1 .. (Len(exPath) - i + 1) |-> Decoded(exPath[k + i - 1])])

\* exec was called and returned (a match or undefined)
Returned == exOut.status \in {"match", "fail"}

\* the pattern segments before index i are plain literals equal to the path
\* segment at their index, or single-segment parameters that have one (or are
\* optional)
Reaches(i) ==
    \A j \in 1 .. (i - 1) :
        IF IsLiteral(exPat[j])
        THEN IsPlainLiteral(exPat[j]) /\ j <= Len(exPath) /\ exPat[j] = exPath[j]
        ELSE /\ IsParam(exPat[j])
             /\ FlagOf(exPat[j]) \in {"", "?"}
             /\ (j <= Len(exPath) \/ FlagOf(exPat[j]) = "?")

\* the value exec bound to the parameter of pattern segment i
BoundAt(i) == exOut.params[NameOf(exPat[i])]

\* C11: for a parameter segment at index i that exec gets to, when exec
\* returns: ":name" and ":name+" fail without a path segment i; ":name?" and
\* ":name*" leave name unbound without one (":name?" as the last pattern
\* segment, ":name*" anywhere, then match); ":name?" as last segment of a path
\* that ends at i binds that segment; ":name*" and ":name+" with a segment i
\* match and bind all remaining segments joined by '/'.
C11_ParameterModifiers ==
    Returned =>
      \A i \in 1 .. Len(exPat) :
        (IsParam(exPat[i]) /\ Reaches(i)) =>
          LET flag == FlagOf(exPat[i])
              absent == i > Len(exPath)
              last == i = Len(exPat)
          IN  /\ (absent /\ flag \in {"", "+"}) => exOut.status = "fail"
              /\ (absent /\ flag = "*")
                    => (exOut.status = "match" /\ BoundAt(i) = Undefined)
              /\ (absent /\ flag = "?" /\ last)
                    => (exOut.status = "match" /\ BoundAt(i) = Undefined)
              /\ (~absent /\ flag = "?" /\ last /\ Len(exPath) = i)
                    => (exOut.status = "match" /\ BoundAt(i) = Decoded(exPath[i]))
              /\ (~absent /\ flag \in {"*", "+"})
                    => (exOut.status = "match" /\ BoundAt(i) = Remaining(i))

\* "/a/:x+" on "/a/%41/a" binds x to "A/a"
C11_Witness ==
    /\ exPat = << <<"a">>, <<":", "x", "+">> >>
    /\ exPath = << <<"a">>, <<"%", "4", "1">>, <<"a">> >>
    /\ exOut.status = "match"
    /\ exOut.params[<<"x">>] = <<"A", "/", "a">>

\* C12: for a bare "*" at index i that exec gets to, when exec returns: with
\* a path segment i it matches, whatever pattern segments follow, and rest is
\* '/' followed by the remaining segments joined by '/'; without one it fails.
C12_BareWildcard ==
    Returned =>
      \A i \in 1 .. Len(exPat) :
        (IsWildcard(exPat[i]) /\ Reaches(i)) =>
          IF i <= Len(exPath)
          THEN exOut.status = "match" /\ exOut.rest = <<"/">> \o Remaining(i)
          ELSE exOut.status = "fail"

\* "/*/b" on "/a/%41/a": the wildcard takes everything, "b" is not consulted
C12_Witness ==
    /\ exPat = << <<"*">>, <<"b">> >>
    /\ exPath = << <<"a">>, <<"%", "4", "1">>, <<"a">> >>
    /\ exOut.status = "match"
    /\ exOut.rest = <<"/", "a", "/", "A", "/", "a">>

\* no segment of the pattern starts with ':' and none is a bare '*'
LiteralPattern == \A i \in 1 .. Len(exPat) : IsLiteral(exPat[i])

\* C13: for a pattern made only of literal segments, when exec returns: a path
\* whose segments equal the pattern's one for one matches with empty params,
\* and a match means every pattern segment equals the path segment at its
\* index.
C13_LiteralPatterns ==
    (Returned /\ LiteralPattern) =>
        /\ exPath = exPat => (exOut.status = "match" /\ exOut.params = EmptyMap)
        /\ exOut.status = "match" =>
              \A i \in 1 .. Len(exPat) : i <= Len(exPath) /\ exPath[i] = exPat[i]

\* the pattern has a segment that takes every remaining path segment
Absorbs ==
    \E i \in 1 .. Len(exPat) :
        IsWildcard(exPat[i]) \/ (IsParam(exPat[i]) /\ FlagOf(exPat[i]) \in {"*", "+"})

\* C14: when exec returns, it returns undefined if a literal pattern segment it
\* gets to differs from the path segment at its index, if a required parameter
\* it gets to has no path segment, or if the path is longer than a pattern
\* that has no ":name*", ":name+" or bare "*".
C14_FailureCases ==
    Returned =>
        ((\/ \E i \in 1 .. Len(exPat) :
                /\ Reaches(i)
                /\ \/ IsLiteral(exPat[i]) /\ (i > Len(exPath) \/ exPath[i] # exPat[i])
                   \/ IsParam(exPat[i]) /\ FlagOf(exPat[i]) \in {"", "+"}
                                         /\ i > Len(exPath)
          \/ Len(exPath) > Len(exPat) /\ ~Absorbs)
            => exOut.status = "fail")

\* the value the parameter segment at index i binds
ValueAt(i) ==
    IF i > Len(exPath) THEN Undefined
    ELSE IF FlagOf(exPat[i]) \in {"*", "+"} THEN Remaining(i)
    ELSE Decoded(exPath[i])

\* the parameter segments exec gets to that declare `name`
Occurrences(name) ==
    { j \in 1 .. Len(exPat) :
        IsParam(exPat[j]) /\ NameOf(exPat[j]) = name /\ Reaches(j) }

\* the object exec was given
Given == MatchesFor(exInto, PathString(exPath, exSlash), PatternString(exPat))

\* the literal segments of the pattern end in none of the flag characters
PlainLiterals ==
    \A i \in 1 .. Len(exPat) : IsLiteral(exPat[i]) => IsPlainLiteral(exPat[i])

\* C15: on a match (of a pattern whose literal segments are plain), for every
\* parameter name the pattern declares in segments exec gets to, params[name]
\* is the value bound by the last of them; the top-level field `name` is the
\* value bound by the first of them, unless the object had a field of that
\* name before the call, which keeps its value.
C15_DuplicateNames ==
    (exOut.status = "match" /\ PlainLiterals) =>
      \A i \in 1 .. Len(exPat) :
        (IsParam(exPat[i]) /\ Reaches(i)) =>
          \E name \in {NameOf(exPat[i])} :
            /\ exOut.params[name] = ValueAt(SetMax(Occurrences(name)))
            /\ IF name \in Given.reserved
               THEN /\ name \notin DOMAIN exOut.flat
                    /\ exOut.path = Given.path /\ exOut.query = Given.query
               ELSE exOut.flat[name] = ValueAt(SetMin(Occurrences(name)))

\* "/:x/:x" on "/a/%41": params.x is "A", the top-level x is "a"
C15_Witness ==
    /\ exPat = << <<":", "x">>, <<":", "x">> >>
    /\ exPath = << <<"a">>, <<"%", "4", "1">> >>
    /\ exOut.status = "match"
    /\ exOut.params[<<"x">>] = <<"A">>
    /\ exOut.flat[<<"x">>] = <<"a">>

\* C16: exec never throws: every call yields a match or undefined.
C16_NeverThrows == exOut # NoResult => Returned

\* ---------------------------------------------------------------------------
\* the click handler (SpecClick)
\* ---------------------------------------------------------------------------
\* the provider has a scope prop and the href of the clicked link is outside it
OutOfScopeClick(ev) ==
    /\ ev.type = "click" /\ ev.link
    /\ lpProps.scope # NoScope
    /\ ~InScope(lpProps.scope, ev.href)

\* C19: a click on a link whose href is outside the scope prop of the
\* provider does not call preventDefault and leaves the url state, `push` and
\* the browser's location as they were, whatever the other props are.
C19_OutOfScopeLinkIgnored ==
    [][ (act' = "handler" /\ OutOfScopeClick(event'))
            => (~prevented' /\ UNCHANGED <<url, push, location>>) ]_vars

\* C22: the handler of a popstate event, in a provider without a url prop,
\* sets the url state to the browser's location and calls neither
\* history.pushState nor history.replaceState.
C22_PopstateWritesNoHistory ==
    [][ (act' = "handler" /\ event'.type = "popstate" /\ lpProps.url = Undefined)
            => (url' = event'.href /\ push' = "undefined") ]_vars

============================================================================
